---- MODULE Spec2Model ----
(***************************************************************************)
(* Verification model of the Magician Platform core:                       *)
(*   - the Fibonrose reputation service (fibonroseService.ts)              *)
(*   - the magicians (BaseMagician and its four subclasses)                *)
(*   - the HTTP routes that reach them (magiciansRoutes.ts)                *)
(***************************************************************************)
EXTENDS Integers, Sequences, FiniteSets, TLC

(***************************************************************************)
(* Bounds of the model.                                                    *)
(***************************************************************************)
\* longest console trace of the reputation service in the general specification
MaxLog == 3
\* most execute() calls in one behaviour of the magician specification
MaxCalls == 2
\* number of dao_vote events of the flood scenario
FloodLen == 22
\* events that may follow the flood
TailLen == 2
\* last reading of the clock
MaxTime == 1
\* most events of one type in a window handed to the fraud detector
MaxRun == 21
\* most events applied in one behaviour of the classifier specification
MaxEvents == 2
\* most addPoints calls in flight at once
MaxPending == 2

\* largest limit given to getRecentActions
MaxLimit == 3

\* largest total score whose progress is computed
MaxScore == 3100

(***************************************************************************)
(* Values standing for JavaScript's undefined.                             *)
(***************************************************************************)
\* context.userId / params.userId absent (0 is falsy like undefined)
NoUser == 0
\* context.fibonroseScore === undefined
NoScore == -1

Users == {1, 2}

(***************************************************************************)
(* fibonroseService.ts                                                     *)
(***************************************************************************)
POINT_VALUES ==
  [complete_gig |-> 40, gig_5star_review |-> 10, first_gig_completed |-> 40,
   dao_vote |-> 5, dao_proposal_submitted |-> 15, dao_proposal_approved |-> 50,
   help_community_member |-> 10, create_tutorial |-> 25,
   asl_content_created |-> 30, mentor_session |-> 30,
   complete_profile |-> 20, verify_email |-> 10, verify_identity |-> 15,
   complete_onboarding |-> 25,
   harassment_violation |-> -100, scam_attempt |-> -200, spam |-> -20]

\* property names POINT_VALUES, an object literal, inherits from
\* Object.prototype: POINT_VALUES[name] is then a function, not a number
ObjectPrototype == {"constructor", "toString", "valueOf", "hasOwnProperty"}

\* POINT_VALUES[action] || 0, for the names that are not inherited
PointsOf(action) ==
  IF action \in DOMAIN POINT_VALUES THEN POINT_VALUES[action] ELSE 0

\* currentScore.totalScore + pointsChange when pointsChange is a function: the
\* string made of the score and the function's source text
Concat(totalScore, action) == <<totalScore, "function", action>>

\* requiredScore 0 stands for a badge without requiredScore (both are falsy)
BADGES ==
  << [id |-> "founding_member", requiredScore |-> 0],
     [id |-> "top_contributor", requiredScore |-> 500],
     [id |-> "community_guardian", requiredScore |-> 300],
     [id |-> "active_voter", requiredScore |-> 0],
     [id |-> "mentor", requiredScore |-> 0],
     [id |-> "asl_creator", requiredScore |-> 0] >>

levels == <<0, 50, 100, 200, 350, 550, 850, 1300, 2000, 3000>>

RECURSIVE LevelScan(_, _)
\* the loop of calculateLevel with i the 1-based index (the code's i + 1)
LevelScan(score, i) ==
  IF i < 1 THEN 1
  ELSE IF score >= levels[i] THEN i
  ELSE LevelScan(score, i - 1)

RECURSIVE LevelScanStrict(_, _)
LevelScanStrict(score, i) ==
  IF i < 1 THEN 1
  ELSE IF score > levels[i] THEN i
  ELSE LevelScanStrict(score, i - 1)

\* calculateLevel with > in place of >=
calculateLevel_strict(score) == LevelScanStrict(score, Len(levels))

calculateLevel(score) == LevelScan(score, Len(levels))

\* the mock record getFibonroseScore returns for every user
getFibonroseScore(userId) ==
  [userId |-> userId,
   totalScore |-> 150,
   level |-> calculateLevel(150),
   badges |-> <<"founding_member">>,
   recentActivity |-> <<>>]

RECURSIVE BadgeScan(_, _)
\* the for loop of checkForNewBadges from badge k on
BadgeScan(currentScore, k) ==
  IF k > Len(BADGES) THEN <<>>
  ELSE (IF BADGES[k].requiredScore # 0 /\ currentScore >= BADGES[k].requiredScore
        THEN <<BADGES[k].id>> ELSE <<>>) \o BadgeScan(currentScore, k + 1)

checkForNewBadges(userId, action, currentScore) == BadgeScan(currentScore, 1)

NoResult == [op |-> "none"]

\* the value addPoints returns
addPointsResult(userId, action) ==
  LET pointsChange == PointsOf(action)
      currentScore == getFibonroseScore(userId)
      newScore     == currentScore.totalScore + pointsChange
  IN IF action \in ObjectPrototype
     \* pointsChange is a function: truthy and not === 0; newScore is a string,
     \* every comparison of calculateLevel and checkForNewBadges with it is
     \* false, so the level is the final 'return 1' and no badge is pushed
     THEN [op |-> "addPoints", userId |-> userId, action |-> action,
           success |-> TRUE,
           newScore |-> Concat(currentScore.totalScore, action),
           newLevel |-> 1, badgesEarned |-> <<>>]
     ELSE IF pointsChange = 0
     THEN [op |-> "addPoints", userId |-> userId, action |-> action,
           success |-> FALSE, error |-> "Unknown action"]
     ELSE [op |-> "addPoints", userId |-> userId, action |-> action,
           success |-> TRUE, newScore |-> newScore,
           newLevel |-> calculateLevel(newScore),
           badgesEarned |-> checkForNewBadges(userId, action, newScore)]

\* the console after addPoints: the '[Fibonrose] Points added' line, with the
\* timestamp of the activity object built just before it
addPointsLog(log, userId, action, source, time) ==
  LET pointsChange == PointsOf(action)
      currentScore == getFibonroseScore(userId)
      newScore     == currentScore.totalScore + pointsChange
      newLevel     == calculateLevel(newScore)
  IN IF action \in ObjectPrototype
     THEN Append(log,
            [kind |-> "points", userId |-> userId, action |-> action,
             pointsChange |-> "function",
             newScore |-> Concat(currentScore.totalScore, action),
             newLevel |-> 1, levelUp |-> 1 > currentScore.level,
             badgesEarned |-> <<>>,
             source |-> source, timestamp |-> time])
     ELSE IF pointsChange = 0 THEN log
     ELSE Append(log,
            [kind |-> "points", userId |-> userId, action |-> action,
             pointsChange |-> pointsChange, newScore |-> newScore,
             newLevel |-> newLevel, levelUp |-> newLevel > currentScore.level,
             badgesEarned |-> checkForNewBadges(userId, action, newScore),
             source |-> source, timestamp |-> time])

\* the console after freezeAccount
freezeAccountLog(log, userId, reason, time) ==
  Append(log, [kind |-> "frozen", userId |-> userId, reason |-> reason,
               timestamp |-> time])

\* milliseconds in one reading of the clock
HourMs == 3600000

RECURSIVE ActionsInOrder(_, _)
\* the keys of actionCounts in insertion order, from position k on, not in seen
ActionsInOrder(recentActions, seen) ==
  IF recentActions = <<>> THEN <<>>
  ELSE LET a == Head(recentActions).action
       IN IF a \in seen THEN ActionsInOrder(Tail(recentActions), seen)
          ELSE <<a>> \o ActionsInOrder(Tail(recentActions), seen \cup {a})

\* actionCounts[action]
ActionCount(recentActions, action) ==
  Cardinality({i \in DOMAIN recentActions : recentActions[i].action = action})

RECURSIVE RepeatFlags(_, _)
RepeatFlags(recentActions, keys) ==
  IF keys = <<>> THEN <<>>
  ELSE (IF ActionCount(recentActions, Head(keys)) > 20
        THEN << <<"Repeated action", Head(keys),
                  ActionCount(recentActions, Head(keys))>> >>
        ELSE <<>>) \o RepeatFlags(recentActions, Tail(keys))

RECURSIVE RepeatFlags_from20(_, _)
\* the repetition loop with the comparison count >= 20
RepeatFlags_from20(recentActions, keys) ==
  IF keys = <<>> THEN <<>>
  ELSE (IF ActionCount(recentActions, Head(keys)) >= 20
        THEN << <<"Repeated action", Head(keys),
                  ActionCount(recentActions, Head(keys))>> >>
        ELSE <<>>) \o RepeatFlags_from20(recentActions, Tail(keys))

\* the detector with the comparison recentActions.length >= 50
detectReputationGaming_from50(userId, recentActions) ==
  LET n == Len(recentActions)
      velocity ==
        IF n >= 50 /\ recentActions[n].timestamp - recentActions[1].timestamp < 3600000
        THEN << <<"Excessive activity in short timeframe", "", 0>> >>
        ELSE <<>>
      flags == velocity \o RepeatFlags(recentActions, ActionsInOrder(recentActions, {}))
  IN [isSuspicious |-> Len(flags) > 0, flags |-> flags]

\* the detector with the repetition loop RepeatFlags_from20
detectReputationGaming_repeat20(userId, recentActions) ==
  LET n == Len(recentActions)
      velocity ==
        IF n > 50 /\ recentActions[n].timestamp - recentActions[1].timestamp < 3600000
        THEN << <<"Excessive activity in short timeframe", "", 0>> >>
        ELSE <<>>
      flags == velocity \o RepeatFlags_from20(recentActions, ActionsInOrder(recentActions, {}))
  IN [isSuspicious |-> Len(flags) > 0, flags |-> flags]

detectReputationGaming(userId, recentActions) ==
  LET n == Len(recentActions)
      velocity ==
        IF n > 50 /\ recentActions[n].timestamp - recentActions[1].timestamp < 3600000
        THEN << <<"Excessive activity in short timeframe", "", 0>> >>
        ELSE <<>>
      flags == velocity \o RepeatFlags(recentActions, ActionsInOrder(recentActions, {}))
  IN [isSuspicious |-> Len(flags) > 0, flags |-> flags]

(***************************************************************************)
(* deafAuthService.ts and the request context                             *)
(***************************************************************************)
\* bearer tokens: "none" is the absent (or empty) token, "forged" a non-empty
\* string jwt.verify rejects, "jwt1"/"jwt2" the tokens signed for users 1 and 2
Tokens == {"none", "forged", "jwt1", "jwt2"}

\* verifyToken: the decoded userId, or NoUser for null
verifyToken(token) ==
  CASE token = "jwt1" -> 1
    [] token = "jwt2" -> 2
    [] OTHER -> NoUser

\* getMagicianContext(req) for the Authorization header's token
getMagicianContext(token) ==
  IF token # "none" /\ verifyToken(token) # NoUser
  THEN [userId |-> verifyToken(token), deafAuthToken |-> token, fibonroseScore |-> 150]
  ELSE [userId |-> NoUser, deafAuthToken |-> "none", fibonroseScore |-> NoScore]

(***************************************************************************)
(* BaseMagician                                                            *)
(***************************************************************************)
Magicians ==
  {"gatekeeper", "reputation_tracker", "workflow_automator", "community_concierge"}

validateDeafAuth(context) == context.deafAuthToken # "none"

validateFibonrose(context, minimumScore) ==
  IF context.fibonroseScore = NoScore THEN FALSE
  ELSE context.fibonroseScore >= minimumScore

\* logAction keeping only the two newest records: it shifts the oldest out
logAction_rotating(st, magicianId, type, action, details, success, userId, error) ==
  LET record == [type |-> type, timestamp |-> st.now, magicianId |-> magicianId,
                 userId |-> userId, action |-> action, details |-> details,
                 success |-> success, error |-> error]
      log == Append(st.actionLog[magicianId], record)
  IN [st EXCEPT !.actionLog[magicianId] = IF Len(log) > 2 THEN Tail(log) ELSE log]

\* error "" stands for an ActionRecord without error
logAction(st, magicianId, type, action, details, success, userId, error) ==
  [st EXCEPT !.actionLog[magicianId] =
     Append(@, [type |-> type, timestamp |-> st.now, magicianId |-> magicianId,
                userId |-> userId, action |-> action, details |-> details,
                success |-> success, error |-> error])]

\* the placeholder only writes to the console and reports the request queued;
\* coordLog keeps each request with the value the call returned
coordinateWith(st, request) ==
  LET result == [success |-> TRUE, message |-> "Coordination request queued"]
  IN [st |-> [st EXCEPT !.coordLog =
                Append(@, [fromMagician |-> request.fromMagician,
                           toMagician |-> request.toMagician,
                           requestType |-> request.requestType,
                           priority |-> request.priority,
                           result |-> result])],
      result |-> result]

\* a handler's return value together with the state it leaves
Ret(st, result) == [st |-> st, result |-> result]

Fail(error) == [success |-> FALSE, error |-> error]

(***************************************************************************)
(* ReputationTrackerMagician                                               *)
(* Every handler takes the state st it runs in, the context and the        *)
(* params, and gives Ret(state it leaves, value it returns).               *)
(* params.missing stands for params being undefined, on which the          *)
(* destructuring at the top of a handler throws into its catch block.      *)
(***************************************************************************)
RT == "reputation_tracker"

getLevelThreshold(level) ==
  IF level \in 1..Len(levels) THEN levels[level] ELSE 0

\* the progress block and the next milestone viewScore computes from a score
scoreProgress(score) ==
  LET nextLevel == score.level + 1
      currentLevelThreshold == getLevelThreshold(score.level)
      nextLevelThreshold == getLevelThreshold(nextLevel)
      pointsToNext == nextLevelThreshold - score.totalScore
  IN [current |-> score.totalScore - currentLevelThreshold,
      needed |-> nextLevelThreshold - currentLevelThreshold,
      nextMilestoneLevel |-> nextLevel,
      pointsNeeded |-> pointsToNext]

viewScore(st, context, params) ==
  IF params.missing
  THEN Ret(logAction(st, RT, "view", "view_score", "params", FALSE,
                     context.userId, "TypeError"),
           Fail("Failed to retrieve score"))
  ELSE
    LET targetUserId == IF params.userId # NoUser THEN params.userId
                        ELSE context.userId
        score == getFibonroseScore(targetUserId)
        progress == scoreProgress(score)
    IN IF targetUserId = NoUser THEN Ret(st, Fail("User ID required"))
       ELSE Ret(logAction(st, RT, "view", "view_score", "userId", TRUE,
                          context.userId, ""),
                [success |-> TRUE, error |-> "",
                 total |-> score.totalScore, level |-> score.level,
                 badges |-> score.badges,
                 current |-> progress.current,
                 needed |-> progress.needed,
                 nextMilestoneLevel |-> progress.nextMilestoneLevel,
                 pointsNeeded |-> progress.pointsNeeded])

recordContribution(st, context, params) ==
  IF params.missing
  THEN Ret(logAction(st, RT, "contribution", "record_contribution", "params",
                     FALSE, context.userId, "TypeError"),
           Fail("Failed to record contribution"))
  ELSE
    LET result == addPointsResult(params.userId, params.contributionType)
        st1 == [st EXCEPT !.fibResult = result,
                          !.fibLog =
                  addPointsLog(@, params.userId, params.contributionType,
                               params.source, st.now)]
    IN IF ~result.success THEN Ret(st1, Fail(result.error))
       ELSE
         LET leveledUp ==
               result.newLevel >
                 (IF context.fibonroseScore # NoScore /\ context.fibonroseScore # 0
                  THEN calculateLevel(context.fibonroseScore) ELSE 1)
             st2 == logAction(st1, RT, "contribution", "record_contribution",
                              "contribution", TRUE, context.userId, "")
             notify == leveledUp \/ Len(result.badgesEarned) > 0
             st3 == IF notify
                    THEN coordinateWith(st2,
                           [fromMagician |-> RT, toMagician |-> "workflow_automator",
                            requestType |-> "send_notification",
                            priority |-> "medium"]).st
                    ELSE st2
         IN Ret(st3, [success |-> TRUE, error |-> "",
                      userId |-> params.userId,
                      newScore |-> result.newScore, newLevel |-> result.newLevel,
                      leveledUp |-> leveledUp,
                      badgesEarned |-> result.badgesEarned])

detectGaming(st, context, params) ==
  IF params.missing
  THEN Ret(logAction(st, RT, "fraud_detection", "detect_gaming", "params", FALSE,
                     context.userId, "TypeError"),
           Fail("Failed to detect gaming"))
  ELSE
    LET score == getFibonroseScore(params.userId)
        gamingCheck == detectReputationGaming(params.userId, score.recentActivity)
    IN IF gamingCheck.isSuspicious
       THEN
         LET st1 == logAction(st, RT, "fraud_detection", "detect_gaming", "flags",
                              TRUE, context.userId, "")
             st2 == [st1 EXCEPT !.fibLog =
                       freezeAccountLog(@, params.userId, gamingCheck.flags, st.now)]
             st3 == coordinateWith(st2,
                      [fromMagician |-> RT, toMagician |-> "safety_monitor",
                       requestType |-> "review_reputation_gaming",
                       priority |-> "high"]).st
         IN Ret(st3, [success |-> TRUE, error |-> "", suspicious |-> TRUE,
                      flags |-> gamingCheck.flags])
       ELSE Ret(st, [success |-> TRUE, error |-> "", suspicious |-> FALSE,
                     flags |-> <<>>])

reputationExecute(st, action, context, params) ==
  CASE action = "view_score" -> viewScore(st, context, params)
    [] action = "record_contribution" -> recordContribution(st, context, params)
    [] action = "detect_gaming" -> detectGaming(st, context, params)
    [] OTHER -> Ret(st, Fail("Unknown action"))

(***************************************************************************)
(* WorkflowAutomatorMagician                                               *)
(***************************************************************************)
WA == "workflow_automator"

\* a WorkflowAction; maxRetries 0 stands for an action without maxRetries
WfAction(type, retryOnFailure, maxRetries) ==
  [type |-> type, retryOnFailure |-> retryOnFailure, maxRetries |-> maxRetries]

\* the id of a recipe: its name and, for custom_${Date.now()}, the clock reading
RecipeId(name, stamp) == <<name, stamp>>

\* the recipes initializeDefaultWorkflows stores
DefaultRecipes ==
  LET weekly == RecipeId("weekly_dao_digest", 0)
      onboarding == RecipeId("new_user_onboarding", 0)
      gig == RecipeId("gig_completion", 0)
  IN (weekly :> [id |-> weekly, name |-> "Weekly DAO Digest Email",
                 actions |-> <<WfAction("gather_dao_activity", FALSE, 0),
                               WfAction("send_email", FALSE, 0)>>,
                 enabled |-> TRUE, createdBy |-> NoUser])
     @@ (onboarding :> [id |-> onboarding, name |-> "New User Onboarding Workflow",
                 actions |-> <<WfAction("create_profile", FALSE, 0),
                               WfAction("send_welcome_email", FALSE, 0),
                               WfAction("assign_mentor", FALSE, 0)>>,
                 enabled |-> TRUE, createdBy |-> NoUser])
     @@ (gig :> [id |-> gig, name |-> "Gig Completion Workflow",
                 actions |-> <<WfAction("update_fibonrose", FALSE, 0),
                               WfAction("send_notification", FALSE, 0),
                               WfAction("check_milestones", FALSE, 0)>>,
                 enabled |-> TRUE, createdBy |-> NoUser])

createRecipe(st, context, params) ==
  IF ~validateDeafAuth(context) THEN Ret(st, Fail("Authentication required"))
  ELSE IF ~validateFibonrose(context, 200)
  THEN Ret(st, Fail("Fibonrose Level 4+ required to create workflows"))
  ELSE IF params.missing
  THEN Ret(logAction(st, WA, "workflow", "create_recipe", "params", FALSE,
                     context.userId, "TypeError"),
           Fail("Failed to create recipe"))
  ELSE
    LET recipeId == RecipeId("custom", st.now)
        recipe == [id |-> recipeId, name |-> params.name,
                   actions |-> params.actions, enabled |-> TRUE,
                   createdBy |-> context.userId]
        st1 == [st EXCEPT !.recipes =
                  [k \in DOMAIN @ \cup {recipeId} |->
                     IF k = recipeId THEN recipe ELSE @[k]]]
    IN Ret(logAction(st1, WA, "workflow", "create_recipe", "recipeId", TRUE,
                     context.userId, ""),
           [success |-> TRUE, error |-> "", recipeId |-> recipeId])

sendNotification(st, context, params) ==
  IF params.missing
  THEN Ret(logAction(st, WA, "notification", "send_notification", "params", FALSE,
                     context.userId, "TypeError"),
           Fail("Failed to send notification"))
  ELSE Ret(logAction(st, WA, "notification", "send_notification", "userId", TRUE,
                     context.userId, ""),
           [success |-> TRUE, error |-> ""])

\* executeAction; payload.missing stands for an undefined payload, on which
\* reading payload.userId throws into the catch block
executeAction(st, action, payload, context) ==
  CASE action.type = "send_notification" ->
         \* {...action.config, ...payload} is an object also without payload
         sendNotification(st, context, [missing |-> FALSE])
    [] action.type = "update_fibonrose" ->
         IF payload.missing
         THEN Ret([st EXCEPT !.actionFailed = Append(@, action.type)],
                  [success |-> FALSE])
         ELSE Ret(coordinateWith(st,
                    [fromMagician |-> WA, toMagician |-> RT,
                     requestType |-> "record_contribution",
                     priority |-> "none"]).st,
                  [success |-> TRUE])
    [] OTHER -> Ret(st, [success |-> TRUE])

RECURSIVE RunActions_continue(_, _, _, _, _, _, _)
\* a loop that goes on to the next action after every failure
RunActions_continue(st, actions, k, payload, context, results, allSucceeded) ==
  IF k > Len(actions)
  THEN [st |-> st, results |-> results, allSucceeded |-> allSucceeded]
  ELSE
    LET r == executeAction(st, actions[k], payload, context)
        results1 == Append(results, [action |-> actions[k].type,
                                     success |-> r.result.success])
    IN RunActions_continue(r.st, actions, k + 1, payload, context, results1,
                           allSucceeded /\ r.result.success)

RECURSIVE RunActions(_, _, _, _, _, _, _)
\* the for loop of executeRecipe from action k on
RunActions(st, actions, k, payload, context, results, allSucceeded) ==
  IF k > Len(actions)
  THEN [st |-> st, results |-> results, allSucceeded |-> allSucceeded]
  ELSE
    LET r == executeAction(st, actions[k], payload, context)
        results1 == Append(results, [action |-> actions[k].type,
                                     success |-> r.result.success])
    IN IF r.result.success
       THEN RunActions(r.st, actions, k + 1, payload, context, results1, allSucceeded)
       ELSE IF actions[k].retryOnFailure /\ actions[k].maxRetries # 0
       THEN RunActions(r.st, actions, k + 1, payload, context, results1, FALSE)
       ELSE [st |-> r.st, results |-> results1, allSucceeded |-> FALSE]

executeRecipe(st, context, params) ==
  IF params.missing
  THEN Ret(logAction(st, WA, "workflow", "execute_recipe", "params", FALSE,
                     context.userId, "TypeError"),
           Fail("Failed to execute recipe"))
  ELSE IF params.recipeId \notin DOMAIN st.recipes
  THEN Ret(st, Fail("Recipe not found"))
  ELSE IF ~st.recipes[params.recipeId].enabled
  THEN Ret(st, Fail("Recipe is disabled"))
  ELSE
    LET run == RunActions(st, st.recipes[params.recipeId].actions, 1,
                          params.payload, context, <<>>, TRUE)
    IN Ret(logAction(run.st, WA, "workflow", "execute_recipe", "recipeId",
                     run.allSucceeded, context.userId, ""),
           [success |-> run.allSucceeded, error |-> "",
            recipeId |-> params.recipeId, results |-> run.results])

\* milliseconds of each schedule unit
ScheduleMultipliers ==
  [second |-> 1000, minute |-> 60 * 1000, hour |-> 60 * 60 * 1000,
   day |-> 24 * 60 * 60 * 1000]

\* parseSchedule on a schedule string given as what the regular expression
\* finds in it: whether it matches, the digits and the unit; 0 stands for null
parseSchedule(schedule) ==
  IF ~schedule.match THEN 0
  ELSE schedule.value * ScheduleMultipliers[schedule.unit]

\* a scheduleTask that installs the new timer and leaves the old one running
scheduleTask_keepsOld(st, context, params) ==
  IF params.missing
  THEN Ret(logAction(st, WA, "scheduling", "schedule_task", "params", FALSE,
                     context.userId, "TypeError"),
           Fail("Failed to schedule task"))
  ELSE IF ~validateDeafAuth(context) THEN Ret(st, Fail("Authentication required"))
  ELSE IF parseSchedule(params.schedule) = 0
  THEN Ret(st, Fail("Invalid schedule format"))
  ELSE
    LET timer == st.nextTimer
        closure == [taskId |-> params.taskId, action |-> params.action,
                    context |-> context, actionParams |-> params.actionParams,
                    interval |-> parseSchedule(params.schedule)]
        st1 == [st EXCEPT
                  !.timers = [h \in DOMAIN @ \cup {timer} |->
                                IF h = timer THEN closure ELSE @[h]],
                  !.nextTimer = @ + 1,
                  !.scheduledTasks =
                     [k \in DOMAIN @ \cup {params.taskId} |->
                        IF k = params.taskId THEN timer ELSE @[k]]]
    IN Ret(logAction(st1, WA, "scheduling", "schedule_task", "taskId", TRUE,
                     context.userId, ""),
           [success |-> TRUE, error |-> "", taskId |-> params.taskId])

scheduleTask(st, context, params) ==
  IF params.missing
  THEN Ret(logAction(st, WA, "scheduling", "schedule_task", "params", FALSE,
                     context.userId, "TypeError"),
           Fail("Failed to schedule task"))
  ELSE IF ~validateDeafAuth(context) THEN Ret(st, Fail("Authentication required"))
  ELSE IF parseSchedule(params.schedule) = 0
  THEN Ret(st, Fail("Invalid schedule format"))
  ELSE
    LET interval == parseSchedule(params.schedule)
        \* clearInterval of the task's existing timer
        live == IF params.taskId \in DOMAIN st.scheduledTasks
                THEN [h \in DOMAIN st.timers \ {st.scheduledTasks[params.taskId]}
                        |-> st.timers[h]]
                ELSE st.timers
        \* setInterval gives a fresh handle
        timer == st.nextTimer
        closure == [taskId |-> params.taskId, action |-> params.action,
                    context |-> context, actionParams |-> params.actionParams,
                    interval |-> interval]
        st1 == [st EXCEPT
                  !.timers = [h \in DOMAIN live \cup {timer} |->
                                IF h = timer THEN closure ELSE live[h]],
                  !.nextTimer = @ + 1,
                  !.scheduledTasks =
                     [k \in DOMAIN @ \cup {params.taskId} |->
                        IF k = params.taskId THEN timer ELSE @[k]]]
    IN Ret(logAction(st1, WA, "scheduling", "schedule_task", "taskId", TRUE,
                     context.userId, ""),
           [success |-> TRUE, error |-> "", taskId |-> params.taskId])

syncData(st, context, params) ==
  IF params.missing
  THEN Ret(logAction(st, WA, "sync", "sync_data", "params", FALSE,
                     context.userId, "TypeError"),
           Fail("Failed to sync data"))
  ELSE IF ~validateDeafAuth(context) THEN Ret(st, Fail("Authentication required"))
  ELSE Ret(logAction([st EXCEPT !.synced = @ + 1], WA, "sync", "sync_data",
                     "apps", TRUE, context.userId, ""),
           [success |-> TRUE, error |-> "", synced |-> TRUE])

workflowExecute(st, action, context, params) ==
  CASE action = "create_recipe" -> createRecipe(st, context, params)
    [] action = "execute_recipe" -> executeRecipe(st, context, params)
    [] action = "schedule_task" -> scheduleTask(st, context, params)
    [] action = "send_notification" -> sendNotification(st, context, params)
    [] action = "sync_data" -> syncData(st, context, params)
    [] OTHER -> Ret(st, Fail("Unknown action"))

(***************************************************************************)
(* GatekeeperMagician                                                      *)
(***************************************************************************)
GK == "gatekeeper"

welcomeUser(st, context, params) ==
  IF params.missing
  THEN Ret(logAction(st, GK, "welcome", "welcome_user", "params", FALSE,
                     context.userId, "TypeError"),
           Fail("Failed to generate welcome message"))
  ELSE Ret(logAction(st, GK, "welcome", "welcome_user", "appName", TRUE,
                     context.userId, ""),
           [success |-> TRUE, error |-> "",
            needsRegistration |-> context.userId = NoUser])

explainPermissions(st, context, params) ==
  IF context.deafAuthToken = "none" THEN Ret(st, Fail("Not authenticated"))
  ELSE IF verifyToken(context.deafAuthToken) = NoUser
  THEN Ret(st, Fail("Invalid token"))
  ELSE IF params.missing
  THEN Ret(logAction(st, GK, "permissions", "explain_permissions", "params", FALSE,
                     context.userId, "TypeError"),
           Fail("Failed to retrieve permissions"))
  ELSE
    LET fibonroseScore == IF context.fibonroseScore = NoScore THEN 0
                          ELSE context.fibonroseScore
        fibonroseLevel == calculateLevel(fibonroseScore)
    IN Ret(logAction(st, GK, "permissions", "explain_permissions", "appName", TRUE,
                     context.userId, ""),
           [success |-> TRUE, error |-> "",
            canVote |-> fibonroseLevel >= 2, level |-> fibonroseLevel])

checkAccess(st, context, params) ==
  IF params.missing
  THEN Ret(logAction(st, GK, "access_control", "check_access", "params", FALSE,
                     context.userId, "TypeError"),
           Fail("Failed to check access"))
  ELSE IF context.deafAuthToken = "none"
  THEN Ret(logAction(st, GK, "access_control", "check_access", "Not authenticated",
                     FALSE, NoUser, ""),
           [success |-> TRUE, error |-> "", canAccess |-> FALSE])
  ELSE IF verifyToken(context.deafAuthToken) = NoUser
  THEN Ret(st, [success |-> TRUE, error |-> "", canAccess |-> FALSE])
  ELSE
    LET fibonroseScore == IF context.fibonroseScore = NoScore THEN 0
                          ELSE context.fibonroseScore
        fibonroseLevel == calculateLevel(fibonroseScore)
        canAccess == ~(params.appName = "DAO Voting" /\ params.action = "vote"
                       /\ fibonroseLevel < 2)
    IN Ret(logAction(st, GK, "access_control", "check_access", "canAccess", TRUE,
                     verifyToken(context.deafAuthToken), ""),
           [success |-> TRUE, error |-> "", canAccess |-> canAccess])

\* deafAuthService.detectSuspiciousActivity: no heuristic pushes a flag
detectSuspiciousActivity(userId, activityType, details) ==
  LET flags == <<>>
  IN [isSuspicious |-> Len(flags) > 0, flags |-> flags]

flagSuspiciousActivity(st, context, params) ==
  IF params.missing
  THEN Ret(logAction(st, GK, "security", "flag_suspicious_activity", "params",
                     FALSE, context.userId, "TypeError"),
           Fail("Failed to flag activity"))
  ELSE
    LET suspicionCheck ==
          detectSuspiciousActivity(context.userId, params.activityType, "details")
    IN IF suspicionCheck.isSuspicious
       THEN
         LET st1 == logAction(st, GK, "security", "flag_suspicious_activity",
                              "flags", TRUE, context.userId, "")
             st2 == IF params.severity \in {"high", "critical"}
                    THEN coordinateWith(st1,
                           [fromMagician |-> GK, toMagician |-> "safety_monitor",
                            requestType |-> "review_suspicious_activity",
                            priority |-> IF params.severity = "critical"
                                         THEN "critical" ELSE "high"]).st
                    ELSE st1
         IN Ret(st2, [success |-> TRUE, error |-> "", flagged |-> TRUE])
       ELSE Ret(st, [success |-> TRUE, error |-> "", flagged |-> FALSE])

gatekeeperExecute(st, action, context, params) ==
  CASE action = "welcome_user" -> welcomeUser(st, context, params)
    [] action = "flag_suspicious_activity" ->
         flagSuspiciousActivity(st, context, params)
    [] action = "explain_permissions" -> explainPermissions(st, context, params)
    [] action = "check_access" -> checkAccess(st, context, params)
    [] OTHER -> Ret(st, Fail("Unknown action"))

(***************************************************************************)
(* CommunityConciergeMagician                                              *)
(***************************************************************************)
CC == "community_concierge"

\* the FAQ database, each entry with the query strings its lower-cased
\* question contains and the query strings one of its tags contains
faqDatabase ==
  << [category |-> "SignGigs", inQuestion |-> {"signgigs", ""},
      inTags |-> {"signgigs", "profile", ""}],
     [category |-> "Reputation", inQuestion |-> {"fibonrose", ""},
      inTags |-> {"fibonrose", "reputation", ""}],
     [category |-> "DAO", inQuestion |-> {"dao", ""},
      inTags |-> {"dao", "voting", ""}],
     [category |-> "Accessibility", inQuestion |-> {"asl", ""},
      inTags |-> {"asl", "accessibility", ""}] >>

\* the score searchFAQ gives an entry
FaqScore(faq, query) ==
  IF query \in faq.inQuestion THEN 2 ELSE IF query \in faq.inTags THEN 1 ELSE 0

\* the entries with the given score, in database order
FaqWithScore(query, score) ==
  SelectSeq(faqDatabase, LAMBDA faq : FaqScore(faq, query) = score)

\* params.query = "undefined" stands for a missing query, on which
\* query.toLowerCase() throws into the catch block
searchFAQ(st, context, params) ==
  IF params.missing \/ params.query = "undefined"
  THEN Ret(logAction(st, CC, "search", "search_faq", "params", FALSE,
                     context.userId, "TypeError"),
           [success |-> FALSE, error |-> "Failed to search FAQ", matches |-> <<>>])
  ELSE
    LET matches == FaqWithScore(params.query, 2) \o FaqWithScore(params.query, 1)
    IN Ret(logAction(st, CC, "search", "search_faq", "query", TRUE,
                     context.userId, ""),
           [success |-> TRUE, error |-> "", matches |-> matches])

askQuestion(st, context, params) ==
  IF params.missing
  THEN Ret(logAction(st, CC, "question", "ask_question", "params", FALSE,
                     context.userId, "TypeError"),
           Fail("Failed to process question"))
  ELSE
    LET faq == searchFAQ(st, context, [missing |-> FALSE, query |-> params.question])
        found == faq.result.success /\ Len(faq.result.matches) > 0
    IN Ret(logAction(faq.st, CC, "question", "ask_question",
                     IF found THEN "matchFound" ELSE "noMatch", TRUE,
                     context.userId, ""),
           [success |-> TRUE, error |-> "", needsHumanHelp |-> ~found])

collectFeedback(st, context, params) ==
  IF params.missing
  THEN Ret(logAction(st, CC, "feedback", "collect_feedback", "params", FALSE,
                     context.userId, "TypeError"),
           Fail("Failed to collect feedback"))
  ELSE
    LET st1 == logAction(st, CC, "feedback", "collect_feedback", "feedback", TRUE,
                         context.userId, "")
        st2 == coordinateWith(st1,
                 [fromMagician |-> CC, toMagician |-> "analytics_oracle",
                  requestType |-> "record_feedback", priority |-> "low"]).st
    IN Ret(st2, [success |-> TRUE, error |-> "",
                 feedbackId |-> <<"feedback", st.now>>])

conciergeExecute(st, action, context, params) ==
  CASE action = "ask_question" -> askQuestion(st, context, params)
    [] action = "collect_feedback" -> collectFeedback(st, context, params)
    [] action = "search_faq" -> searchFAQ(st, context, params)
    [] OTHER -> Ret(st, Fail("Unknown action"))

(***************************************************************************)
(* MagicianRegistry and execute                                            *)
(***************************************************************************)
\* MagicianRegistry[magicianId].execute(action, context, params)
execute(st, magicianId, action, context, params) ==
  CASE magicianId = GK -> gatekeeperExecute(st, action, context, params)
    [] magicianId = RT -> reputationExecute(st, action, context, params)
    [] magicianId = WA -> workflowExecute(st, action, context, params)
    [] magicianId = CC -> conciergeExecute(st, action, context, params)

(***************************************************************************)
(* State                                                                   *)
(***************************************************************************)
VARIABLES
  now,            \* the clock new Date() / Date.now() reads, in hours
  fibLog,         \* what the reputation service wrote to the console, in order
  fibResult,      \* the value the last addPoints / freezeAccount call returned
  actionLog,      \* BaseMagician.actionLog of each magician
  recipes,        \* WorkflowAutomatorMagician.recipes
  scheduledTasks, \* WorkflowAutomatorMagician.scheduledTasks: taskId -> timer
  timers,         \* the live interval timers: handle -> what the callback runs
  nextTimer,      \* the handle the next setInterval returns
  coordLog,       \* the requests given to coordinateWith and what it returned
  synced,         \* the number of '[Workflow] Syncing data' console lines
  actionFailed,   \* the '[Workflow] Action failed' console lines, in order
  response,       \* the last call made from outside and what it returned
  calls,          \* the number of execute() calls made so far
  pending         \* the addPoints calls suspended at an await: call -> frame

vars == <<now, fibLog, fibResult, actionLog, recipes, scheduledTasks, timers,
          nextTimer, coordLog, synced, actionFailed, response, calls, pending>>

magicianVars == <<actionLog, recipes, scheduledTasks, timers, nextTimer, coordLog,
                  synced, actionFailed, response, calls>>

NoResponse == [via |-> "none"]

Init ==
  /\ now = 0
  /\ fibLog = <<>>
  /\ fibResult = NoResult
  /\ actionLog = [m \in Magicians |-> <<>>]
  /\ recipes = DefaultRecipes
  /\ scheduledTasks = <<>>
  /\ timers = <<>>
  /\ nextTimer = 1
  /\ coordLog = <<>>
  /\ synced = 0
  /\ actionFailed = <<>>
  /\ response = NoResponse
  /\ calls = 0
  /\ pending = <<>>

\* the state a handler runs in
S ==
  [now |-> now * HourMs, fibLog |-> fibLog, fibResult |-> fibResult,
   actionLog |-> actionLog, recipes |-> recipes,
   scheduledTasks |-> scheduledTasks, timers |-> timers, nextTimer |-> nextTimer,
   coordLog |-> coordLog, synced |-> synced, actionFailed |-> actionFailed]

\* the state a handler left becomes the state
Becomes(st) ==
  /\ fibLog' = st.fibLog
  /\ fibResult' = st.fibResult
  /\ actionLog' = st.actionLog
  /\ recipes' = st.recipes
  /\ scheduledTasks' = st.scheduledTasks
  /\ timers' = st.timers
  /\ nextTimer' = st.nextTimer
  /\ coordLog' = st.coordLog
  /\ synced' = st.synced
  /\ actionFailed' = st.actionFailed
  /\ UNCHANGED <<now, pending>>

(***************************************************************************)
(* The reputation service called directly (it is exported as a module).    *)
(***************************************************************************)
\* event types the callers of the model submit; "bogus" is in no table
EventInputs ==
  {"complete_gig", "dao_vote", "dao_proposal_approved",
   "harassment_violation", "scam_attempt", "bogus"}

Sources == {"signgigs"}

AddPoints(userId, action, source) ==
  /\ fibResult' = addPointsResult(userId, action)
  /\ fibLog' = addPointsLog(fibLog, userId, action, source, now * HourMs)
  /\ UNCHANGED <<now, magicianVars, pending>>

FreezeAccount(userId, reason) ==
  /\ fibLog' = freezeAccountLog(fibLog, userId, reason, now * HourMs)
  /\ fibResult' = [op |-> "freezeAccount", userId |-> userId]
  /\ UNCHANGED <<now, magicianVars, pending>>

Tick ==
  /\ now < MaxTime
  /\ now' = now + 1
  /\ UNCHANGED <<fibLog, fibResult, magicianVars, pending>>

LedgerNext ==
  \/ \E u \in Users, a \in EventInputs, s \in Sources :
       Len(fibLog) < MaxLog /\ AddPoints(u, a, s)
  \/ \E u \in Users : Len(fibLog) < MaxLog /\ FreezeAccount(u, <<"manual review">>)
  \/ Tick

LedgerSpec == Init /\ [][LedgerNext]_vars

\* scenario B: one principal floods dao_vote events, then other events follow
FloodNext ==
  \/ /\ Len(fibLog) < FloodLen
     /\ AddPoints(1, "dao_vote", "dao")
  \/ /\ Len(fibLog) >= FloodLen
     /\ Len(fibLog) < FloodLen + TailLen
     /\ \E u \in Users, a \in EventInputs : AddPoints(u, a, "signgigs")

FloodSpec == Init /\ [][FloodNext]_vars

(***************************************************************************)
(* Calls into the magicians                                                *)
(***************************************************************************)
\* the contexts in-process callers pass: no token but a score, what
\* getMagicianContext builds for user 1, a trusted user, a made-up token
AnonContext == [userId |-> NoUser, deafAuthToken |-> "none", fibonroseScore |-> 250]

MemberContext == [userId |-> 1, deafAuthToken |-> "jwt1", fibonroseScore |-> 150]

TrustedContext == [userId |-> 1, deafAuthToken |-> "jwt1", fibonroseScore |-> 250]

ForgedContext == [userId |-> 2, deafAuthToken |-> "forged", fibonroseScore |-> 250]

Contexts == {AnonContext, MemberContext, TrustedContext, ForgedContext}

\* the contexts given to handlers that read no more than context.userId
PlainContexts == {AnonContext, MemberContext}

\* the bearer tokens requests carry
RequestTokens == {"none", "forged", "jwt1"}

Missing == [missing |-> TRUE]

ContributionParams ==
  [missing : {FALSE}, userId : {2},
   contributionType : {"dao_proposal_approved", "bogus"},
   source : {"signgigs"}]

ScoreParams == [missing : {FALSE}, userId : {NoUser, 2}]

RecipeParams ==
  [missing : {FALSE}, name : {"mine"},
   actions : {<<WfAction("send_notification", FALSE, 0),
                WfAction("update_fibonrose", TRUE, 2),
                WfAction("send_email", FALSE, 0)>>}]

RunParams ==
  {[missing |-> FALSE, recipeId |-> RecipeId("gig_completion", 0),
    payload |-> [missing |-> TRUE]],
   [missing |-> FALSE, recipeId |-> RecipeId("gig_completion", 0),
    payload |-> [missing |-> FALSE, userId |-> 1]],
   [missing |-> FALSE, recipeId |-> RecipeId("custom", 0),
    payload |-> [missing |-> TRUE]],
   [missing |-> FALSE, recipeId |-> RecipeId("nothing", 0),
    payload |-> [missing |-> TRUE]]}

Schedules ==
  {[match |-> TRUE, value |-> 5, unit |-> "minute"],
   [match |-> FALSE, value |-> 0, unit |-> "none"]}

TaskParams ==
  [missing : {FALSE}, taskId : {"t1", "t2"}, schedule : Schedules,
   action : {"send_notification"}, actionParams : {Missing}]

AccessParams ==
  [missing : {FALSE}, appName : {"DAO Voting"}, action : {"vote"}]

\* bodies of POST /workflow/execute: the documented { recipeId, payload }, and
\* one that also carries the fields of the generic execute route
ExecuteBodies ==
  {[recipeId |-> RecipeId("gig_completion", 0), payload |-> [missing |-> TRUE],
    action |-> "none", params |-> [missing |-> FALSE]],
   [recipeId |-> RecipeId("gig_completion", 0), payload |-> [missing |-> TRUE],
    action |-> "execute_recipe",
    params |-> [missing |-> FALSE, recipeId |-> RecipeId("gig_completion", 0),
                payload |-> [missing |-> TRUE]]]}

FlagParams ==
  [missing : {FALSE}, activityType : {"login_burst"}, severity : {"medium", "critical"}]

QuestionParams == [missing : {FALSE}, question : {"fibonrose", "undefined"}]

\* magician.execute(action, context, params) called by an in-process caller
Execute(magicianId, action, context, params) ==
  /\ calls < MaxCalls
  /\ LET r == execute(S, magicianId, action, context, params)
     IN /\ Becomes(r.st)
        /\ response' = [via |-> "execute", magicianId |-> magicianId,
                        action |-> action, context |-> context,
                        missing |-> params.missing, status |-> 200,
                        result |-> r.result]
  /\ calls' = calls + 1

\* Array.prototype.slice(start) with one argument: a negative start counts
\* from the end, and the start is clamped to 0..length
slice(array, start) ==
  LET len == Len(array)
      k == IF start < 0
           THEN (IF len + start > 0 THEN len + start ELSE 0)
           ELSE (IF start < len THEN start ELSE len)
  IN SubSeq(array, k + 1, len)

\* BaseMagician.getRecentActions
getRecentActions(log, limit) == slice(log, 0 - limit)

\* magician.getRecentActions(limit) called by an in-process caller
GetRecentActions(magicianId, limit) ==
  /\ response' = [via |-> "getRecentActions", magicianId |-> magicianId,
                  status |-> 0, limit |-> limit,
                  result |-> getRecentActions(actionLog[magicianId], limit)]
  /\ UNCHANGED <<now, fibLog, fibResult, actionLog, recipes, scheduledTasks,
                 timers, nextTimer, coordLog, synced, actionFailed, calls,
                 pending>>

\* the POST routes of the router in the order they are registered; a segment
\* that starts with ':' is a parameter
PostRoutes ==
  << <<":magicianId", "execute">>,
     <<"gatekeeper", "welcome">>,
     <<"gatekeeper", "login">>,
     <<"reputation", "contribution">>,
     <<"workflow", "recipes">>,
     <<"workflow", "execute">> >>

\* the route pattern matches the path segment by segment
Matches(pattern, path) ==
  /\ Len(pattern) = Len(path)
  /\ \A i \in DOMAIN pattern : pattern[i] = ":magicianId" \/ pattern[i] = path[i]

\* the first registered route whose pattern matches the path handles it
RouteOf(path) ==
  LET k == CHOOSE i \in DOMAIN PostRoutes :
             /\ Matches(PostRoutes[i], path)
             /\ \A j \in 1..(i - 1) : ~Matches(PostRoutes[j], path)
  IN PostRoutes[k]

\* the handler of POST /:magicianId/execute
MagicianExecuteRoute(via, magicianId, token, body) ==
  IF body.action = "none"
  THEN /\ response' = [via |-> via, route |-> <<":magicianId", "execute">>,
                       status |-> 400, token |-> token,
                       result |-> Fail("Action is required")]
       /\ UNCHANGED <<now, fibLog, fibResult, actionLog, recipes, scheduledTasks,
                      timers, nextTimer, coordLog, synced, actionFailed, calls,
                 pending>>
  ELSE IF magicianId \notin Magicians
  THEN /\ response' = [via |-> via, route |-> <<":magicianId", "execute">>,
                       status |-> 404, token |-> token,
                       result |-> Fail("Magician not found")]
       /\ UNCHANGED <<now, fibLog, fibResult, actionLog, recipes, scheduledTasks,
                      timers, nextTimer, coordLog, synced, actionFailed, calls,
                 pending>>
  ELSE
    /\ calls < MaxCalls
    /\ LET context == getMagicianContext(token)
           r == execute(S, magicianId, body.action, context, body.params)
       IN /\ Becomes(r.st)
          /\ response' = [via |-> via, route |-> <<":magicianId", "execute">>,
                          status |-> 200, token |-> token,
                          magicianId |-> magicianId, action |-> body.action,
                          context |-> context, missing |-> body.params.missing,
                          result |-> r.result]
    /\ calls' = calls + 1

\* the handler of POST /workflow/execute
WorkflowExecuteRoute(via, token, body) ==
  IF body.recipeId = "none"
  THEN /\ response' = [via |-> via, route |-> <<"workflow", "execute">>,
                       status |-> 400, token |-> token,
                       result |-> Fail("recipeId is required")]
       /\ UNCHANGED <<now, fibLog, fibResult, actionLog, recipes, scheduledTasks,
                      timers, nextTimer, coordLog, synced, actionFailed, calls,
                 pending>>
  ELSE
    /\ calls < MaxCalls
    /\ LET context == getMagicianContext(token)
           r == execute(S, WA, "execute_recipe", context,
                        [missing |-> FALSE, recipeId |-> body.recipeId,
                         payload |-> body.payload])
       IN /\ Becomes(r.st)
          /\ response' = [via |-> via, route |-> <<"workflow", "execute">>,
                          status |-> 200, token |-> token,
                          magicianId |-> WA, action |-> "execute_recipe",
                          context |-> context, missing |-> FALSE,
                          result |-> r.result]
    /\ calls' = calls + 1

\* POST /api/magicians/workflow/execute with the bearer token and body: the
\* router hands the request to the first route that matches
PostWorkflowExecute(token, body) ==
  LET path == <<"workflow", "execute">>
  IN IF RouteOf(path) = <<":magicianId", "execute">>
     THEN MagicianExecuteRoute("POST /workflow/execute", path[1], token, body)
     ELSE WorkflowExecuteRoute("POST /workflow/execute", token, body)

\* the callback of a live interval timer runs
TimerFires(timer) ==
  /\ timer \in DOMAIN timers
  /\ Execute(WA, timers[timer].action, timers[timer].context,
             timers[timer].actionParams)

\* POST /api/magicians/reputation/contribution with the bearer token and body
PostContribution(token, body) ==
  IF body.userId = NoUser
  THEN /\ response' = [via |-> "POST /reputation/contribution", status |-> 400,
                       token |-> token,
                       result |-> Fail("userId, contributionType, and source are required")]
       /\ UNCHANGED <<now, fibLog, fibResult, actionLog, recipes, scheduledTasks,
                      timers, nextTimer, coordLog, synced, actionFailed, calls,
                 pending>>
  ELSE
    /\ calls < MaxCalls
    /\ LET context == getMagicianContext(token)
           r == execute(S, RT, "record_contribution", context, body)
       IN /\ Becomes(r.st)
          /\ response' = [via |-> "POST /reputation/contribution", status |-> 200,
                          token |-> token, magicianId |-> RT,
                          action |-> "record_contribution", context |-> context,
                          missing |-> FALSE, result |-> r.result]
    /\ calls' = calls + 1

\* POST /api/magicians/workflow/recipes with the bearer token and body
PostRecipe(token, body) ==
  /\ calls < MaxCalls
  /\ LET context == getMagicianContext(token)
         r == execute(S, WA, "create_recipe", context, body)
     IN /\ Becomes(r.st)
        /\ response' = [via |-> "POST /workflow/recipes", status |-> 200,
                        token |-> token, magicianId |-> WA,
                        action |-> "create_recipe", context |-> context,
                        missing |-> FALSE, result |-> r.result]
  /\ calls' = calls + 1

MagicianNext ==
  \/ \E c \in Contexts, p \in ContributionParams \cup {Missing} :
       Execute(RT, "record_contribution", c, p)
  \/ \E c \in PlainContexts, p \in ScoreParams : Execute(RT, "view_score", c, p)
  \/ \E c \in PlainContexts :
       Execute(RT, "detect_gaming", c, [missing |-> FALSE, userId |-> 2])
  \/ \E c \in Contexts, p \in RecipeParams \cup {Missing} :
       Execute(WA, "create_recipe", c, p)
  \/ \E c \in PlainContexts, p \in RunParams : Execute(WA, "execute_recipe", c, p)
  \/ \E c \in {AnonContext, TrustedContext}, p \in TaskParams \cup {Missing} :
       Execute(WA, "schedule_task", c, p)
  \/ \E c \in PlainContexts : Execute(WA, "send_notification", c, [missing |-> FALSE])
  \/ \E c \in Contexts : Execute(WA, "sync_data", c, [missing |-> FALSE])
  \/ \E c \in PlainContexts : Execute(GK, "welcome_user", c, [missing |-> FALSE])
  \/ \E c \in Contexts : Execute(GK, "explain_permissions", c, [missing |-> FALSE])
  \/ \E c \in Contexts, p \in AccessParams : Execute(GK, "check_access", c, p)
  \/ \E c \in PlainContexts, p \in QuestionParams : Execute(CC, "ask_question", c, p)
  \/ \E c \in {MemberContext}, p \in {Missing, [missing |-> FALSE]} :
       Execute(CC, "collect_feedback", c, p)
  \/ \E p \in FlagParams : Execute(GK, "flag_suspicious_activity", MemberContext, p)
  \/ \E m \in Magicians : Execute(m, "fly", MemberContext, [missing |-> FALSE])
  \/ \E m \in Magicians : GetRecentActions(m, 1)
  \/ \E t \in {"none", "jwt1"}, b \in ExecuteBodies : PostWorkflowExecute(t, b)
  \/ \E timer \in DOMAIN timers : TimerFires(timer)
  \/ \E t \in RequestTokens,
        p \in ContributionParams
              \cup {[missing |-> FALSE, userId |-> NoUser,
                     contributionType |-> "bogus", source |-> "signgigs"]} :
       PostContribution(t, p)
  \/ \E t \in RequestTokens, p \in RecipeParams : PostRecipe(t, p)

Spec == Init /\ [][MagicianNext]_vars

(***************************************************************************)
(* Claims about the reputation service                                     *)
(***************************************************************************)
\* the '[Fibonrose] Points added' lines of one principal, oldest first: the
\* events applied to it
Applied(u) == SelectSeq(fibLog, LAMBDA e : e.kind = "points" /\ e.userId = u)

\* whether freezeAccount has run for the principal
Frozen(u) == \E i \in DOMAIN fibLog : fibLog[i].kind = "frozen" /\ fibLog[i].userId = u

\* the 1-based indexes of the threshold table a score has reached
ReachedLevels(score) == {i \in DOMAIN levels : score >= levels[i]}

\* the largest element of a non-empty set of numbers
Largest(set) == CHOOSE i \in set : \A j \in set : j <= i

\* every (score, level) pair the service holds or reports for a principal
ScoreLevelPairs ==
  {<<getFibonroseScore(u).totalScore, getFibonroseScore(u).level>> : u \in Users}
  \cup {<<fibLog[i].newScore, fibLog[i].newLevel>> :
          i \in {k \in DOMAIN fibLog : fibLog[k].kind = "points"}}
  \cup (IF fibResult.op = "addPoints" /\ fibResult.success
        THEN {<<fibResult.newScore, fibResult.newLevel>>} ELSE {})

\* C1 as stated: after any sequence of contributions and violations the level
\* of a principal is the largest 1-based index i of the threshold table with
\* totalScore >= threshold[i]
C1_LevelIsLargestReachedIndex ==
  \A p \in ScoreLevelPairs :
    /\ ReachedLevels(p[1]) # {}
    /\ p[2] = Largest(ReachedLevels(p[1]))

\* C1 amended: the level is the largest reached index of the threshold table
\* when the score has reached a threshold, and 1 when the score is negative
C1_LevelMatchesScore ==
  \A p \in ScoreLevelPairs :
    p[2] = IF ReachedLevels(p[1]) = {} THEN 1 ELSE Largest(ReachedLevels(p[1]))

\* C1 witness: a contribution that raised the level and a violation that
\* lowered it have both been applied to one principal
C1_Witness ==
  \E u \in Users :
    \E i, j \in DOMAIN Applied(u) :
      /\ Applied(u)[i].pointsChange > 0
      /\ Applied(u)[i].newLevel > getFibonroseScore(u).level
      /\ Applied(u)[j].pointsChange < 0
      /\ Applied(u)[j].newLevel < getFibonroseScore(u).level

RECURSIVE SumPoints(_)
SumPoints(entries) ==
  IF entries = <<>> THEN 0
  ELSE Head(entries).pointsChange + SumPoints(Tail(entries))

\* the score every principal starts from
InitialScore == 150

\* C2: after n applied events the stored totalScore is the initial score plus
\* the sum of the n deltas, and each event starts from the total the one
\* before it left
C2_ScoreAccumulates ==
  \A u \in Users :
    /\ getFibonroseScore(u).totalScore = InitialScore + SumPoints(Applied(u))
    /\ \A k \in DOMAIN Applied(u) :
         Applied(u)[k].newScore =
           InitialScore + SumPoints(SubSeq(Applied(u), 1, k))

\* C3: no contribution (positive delta) is applied to a principal after it was
\* frozen; a violation still is
C3_FrozenBlocksGains ==
  \A i, j \in DOMAIN fibLog :
    (/\ i < j
     /\ fibLog[i].kind = "frozen"
     /\ fibLog[j].kind = "points"
     /\ fibLog[j].userId = fibLog[i].userId)
    => fibLog[j].pointsChange < 0

\* C4: when the Fraud Detector finds the events applied to a principal
\* suspicious, the principal has been frozen by the update that applied them
C4_SuspiciousIsFrozen ==
  \A u \in Users :
    detectReputationGaming(u, Applied(u)).isSuspicious => Frozen(u)

\* the last n elements of a sequence
LastN(seq, n) ==
  IF Len(seq) <= n THEN seq ELSE SubSeq(seq, Len(seq) - n + 1, Len(seq))

\* C10: the recentEvents window of a principal holds the last K events applied
\* to it, newest last, for a fixed capacity K >= 1
C10_WindowHoldsLastEvents ==
  \E K \in 1..(MaxLog + 1) :
    \A u \in Users :
      LET window == getFibonroseScore(u).recentActivity
          last == LastN(Applied(u), K)
      IN /\ Len(window) = Len(last)
         /\ \A k \in DOMAIN last : window[k].action = last[k].action

(***************************************************************************)
(* Claims about the action envelope                                        *)
(***************************************************************************)
\* a step that is one call of execute(action, context, params)
IsCall == calls' = calls + 1

\* the number of ActionRecords in all the logs
RECURSIVE TotalLen(_, _)
TotalLen(log, ms) ==
  IF ms = {} THEN 0
  ELSE LET m == CHOOSE x \in ms : TRUE
       IN Len(log[m]) + TotalLen(log, ms \ {m})

\* the call appended exactly one ActionRecord, to the log of the actor called
OneRecordAppended ==
  /\ Len(actionLog'[response'.magicianId]) = Len(actionLog[response'.magicianId]) + 1
  /\ TotalLen(actionLog', Magicians) = TotalLen(actionLog, Magicians) + 1

\* C5: every call of execute appends exactly one ActionRecord, never zero and
\* never two, whatever path the call takes
C5_OneRecordPerCall == [][IsCall => OneRecordAppended]_vars

\* the actions whose handler checks the identity token before it acts
GatedActions ==
  {<<WA, "create_recipe">>, <<WA, "schedule_task">>, <<WA, "sync_data">>,
   <<GK, "explain_permissions">>}

AuthErrors == {"Authentication required", "Not authenticated"}

\* the last call was made without an identity token to a gated action
UnauthenticatedCall ==
  /\ response.via # "none"
  /\ response.status = 200
  /\ <<response.magicianId, response.action>> \in GatedActions
  /\ response.context.deafAuthToken = "none"
  /\ ~response.missing

\* C6: an unauthenticated call to a gated action returns an Unauthenticated
\* failure and leaves an ActionRecord of the call with success = false and
\* that error
C6_UnauthenticatedIsAudited ==
  UnauthenticatedCall =>
    LET log == actionLog[response.magicianId]
    IN /\ ~response.result.success
       /\ response.result.error \in AuthErrors
       /\ log # <<>>
       /\ log[Len(log)].action = response.action
       /\ ~log[Len(log)].success
       /\ log[Len(log)].error = response.result.error

\* the handler of the call took effect: a recipe stored or a timer installed
HandlerEffect == recipes' # recipes \/ timers' # timers

\* the gates of a call to create_recipe or schedule_task in their order:
\* without a token the call is rejected as unauthenticated whatever its score,
\* below the trust threshold create_recipe is rejected, and a rejected call
\* has no handler effect
GatesInOrder ==
  LET r == response'
  IN (r.action \in {"create_recipe", "schedule_task"} /\ ~r.missing) =>
       /\ r.context.deafAuthToken = "none" =>
            /\ r.result.error = "Authentication required"
            /\ ~HandlerEffect
       /\ (/\ r.action = "create_recipe"
           /\ r.context.deafAuthToken # "none"
           /\ (r.context.fibonroseScore = NoScore \/ r.context.fibonroseScore < 200)) =>
            /\ r.result.error = "Fibonrose Level 4+ required to create workflows"
            /\ ~HandlerEffect
       /\ HandlerEffect => r.result.success

\* the audit write of the call: its ActionRecord is the last of the log
AuditWritten ==
  LET log == actionLog'[response'.magicianId]
  IN /\ Len(log) = Len(actionLog[response'.magicianId]) + 1
     /\ log[Len(log)].action = response'.action

\* the gate order alone, without the audit write
GateOrderHolds == [][IsCall => GatesInOrder]_vars

\* C7: the gates run in the order authentication, trust threshold, dispatch,
\* each fail-fast, the handler's effects come after every gate, and the audit
\* write happens on every path
C7_GatesThenAudit ==
  [][(IsCall /\ response'.action \in {"create_recipe", "schedule_task"})
       => (GatesInOrder /\ AuditWritten)]_vars

\* the actions that change a score, a recipe, a timer or synced data
StateChangingActions ==
  {"record_contribution", "create_recipe", "schedule_task", "sync_data"}

\* C8: a state-changing action called by a caller without a validated
\* DeafAuth identity changes no score, recipe, timer or synced data
C8_NoEffectWithoutIdentity ==
  [][(/\ IsCall
      /\ response'.action \in StateChangingActions
      /\ verifyToken(response'.context.deafAuthToken) = NoUser)
       => UNCHANGED <<fibLog, recipes, scheduledTasks, timers, synced>>]_vars

(***************************************************************************)
(* The fraud detector called on its own (it is exported by the service).   *)
(***************************************************************************)
\* the event types of the windows
WindowTypes == <<"dao_vote", "complete_gig", "dao_proposal_approved">>

\* time from the first to the last event of a window, in milliseconds
Spans == {0, HourMs - 1, HourMs, 2 * HourMs}

\* a chronological window: counts[k] events of WindowTypes[k], type after
\* type, spread evenly over span milliseconds
Window(counts, span) ==
  LET n == counts[1] + counts[2] + counts[3]
  IN [i \in 1..n |->
       [action |-> IF i <= counts[1] THEN WindowTypes[1]
                   ELSE IF i <= counts[1] + counts[2] THEN WindowTypes[2]
                   ELSE WindowTypes[3],
        timestamp |-> IF n > 1 THEN (span * (i - 1)) \div (n - 1) ELSE 0]]

\* one call of detectReputationGaming(userId, recentActions)
DetectReputationGaming(userId, recentActions) ==
  /\ fibResult' = [op |-> "detectReputationGaming", userId |-> userId,
                   recentActions |-> recentActions,
                   result |-> detectReputationGaming(userId, recentActions)]
  /\ UNCHANGED <<now, fibLog, magicianVars, pending>>

\* the detector is called once, on one of the windows
DetectorNext ==
  /\ fibResult = NoResult
  /\ \E c1 \in 0..MaxRun, c2 \in {0, 9, 10, 20, 21}, c3 \in {0, 20, 21},
        span \in Spans :
       DetectReputationGaming(1, Window(<<c1, c2, c3>>, span))

DetectorSpec == Init /\ [][DetectorNext]_vars

\* the detector has been called
Detected == fibResult.op = "detectReputationGaming"

VelocityFlag == <<"Excessive activity in short timeframe", "", 0>>

\* the flag is one of the flags of the verdict
Flagged(flag, verdict) == \E i \in DOMAIN verdict.flags : verdict.flags[i] = flag

\* time from the first to the last event of the window
Timespan(w) == IF w = <<>> THEN 0 ELSE w[Len(w)].timestamp - w[1].timestamp

\* C11: the 'excessive activity' flag is raised exactly when the window holds
\* more than 50 events and its first and last event are less than one hour
\* apart
C11_VelocityFlag ==
  Detected =>
    LET w == fibResult.recentActions
    IN Flagged(VelocityFlag, fibResult.result)
         <=> (Len(w) >= 51 /\ Timespan(w) < HourMs)

\* 51 events inside one hour were flagged
C11_Witness ==
  /\ Detected
  /\ Len(fibResult.recentActions) = 51
  /\ Timespan(fibResult.recentActions) = HourMs - 1
  /\ Flagged(VelocityFlag, fibResult.result)

\* 50 events spread over two hours were not flagged
C11_WitnessQuiet ==
  /\ Detected
  /\ Len(fibResult.recentActions) = 50
  /\ Timespan(fibResult.recentActions) = 2 * HourMs
  /\ ~Flagged(VelocityFlag, fibResult.result)

\* the number of flags of the verdict equal to flag
FlagCount(flag, verdict) ==
  Cardinality({i \in DOMAIN verdict.flags : verdict.flags[i] = flag})

\* the event types of a window
TypesOf(w) == {w[i].action : i \in DOMAIN w}

\* the repetition flags are one per type counted more than 20 times, and the
\* verdict is suspicious exactly when a flag was raised
RepetitionVerdict(w, verdict) ==
  /\ \A t \in TypesOf(w) :
       FlagCount(<<"Repeated action", t, ActionCount(w, t)>>, verdict)
         = IF ActionCount(w, t) > 20 THEN 1 ELSE 0
  /\ \A i \in DOMAIN verdict.flags :
       \/ verdict.flags[i] = VelocityFlag
       \/ /\ verdict.flags[i][1] = "Repeated action"
          /\ verdict.flags[i][2] \in TypesOf(w)
          /\ verdict.flags[i][3] = ActionCount(w, verdict.flags[i][2])
  /\ verdict.isSuspicious
       <=> \/ Len(w) > 50 /\ Timespan(w) < HourMs
           \/ \E t \in TypesOf(w) : ActionCount(w, t) > 20

ClassifierInputs ==
  DOMAIN POINT_VALUES \cup {"bogus", "", "constructor", "toString"}

ClassifierNext ==
  \/ \E a \in ClassifierInputs :
       Len(fibLog) < MaxEvents /\ AddPoints(1, a, "signgigs")
  \/ Len(fibLog) < MaxEvents /\ FreezeAccount(1, <<"manual review">>)

ClassifierSpec == Init /\ [][ClassifierNext]_vars

\* the step is a call of addPoints
IsAddPoints == fibResult'.op = "addPoints"

\* the call failed as an unknown event type and applied nothing
RejectedUnknown ==
  /\ ~fibResult'.success
  /\ fibResult'.error = "Unknown action"
  /\ fibLog' = fibLog

\* the call was accepted and applied the table's delta to the score
AppliedDelta(a) ==
  /\ fibResult'.success
  /\ Len(fibLog') = Len(fibLog) + 1
  /\ fibLog'[Len(fibLog')].action = a
  /\ fibLog'[Len(fibLog')].pointsChange = POINT_VALUES[a]
  /\ fibResult'.newScore = getFibonroseScore(1).totalScore + POINT_VALUES[a]

\* C13: an event type that is not a key of the table fails as an unknown
\* event type and leaves score, level, badges and recent events as they were;
\* every key of the table is accepted and resolved to its delta
C13_UnknownTypeRejected ==
  [][IsAddPoints =>
       IF fibResult'.action \in DOMAIN POINT_VALUES
       THEN AppliedDelta(fibResult'.action)
       ELSE RejectedUnknown]_vars

\* the same for the event types that are no property name of Object.prototype
C13_OwnNamesOnly ==
  [][(IsAddPoints /\ fibResult'.action \notin ObjectPrototype) =>
       IF fibResult'.action \in DOMAIN POINT_VALUES
       THEN AppliedDelta(fibResult'.action)
       ELSE RejectedUnknown]_vars

\* an event type in no table was rejected
C13_Witness ==
  /\ fibResult.op = "addPoints"
  /\ fibResult.action = "bogus"
  /\ ~fibResult.success

(***************************************************************************)
(* addPoints as the asynchronous function it is: the call runs to its      *)
(* first await, and each later step runs from one await to the next.       *)
(***************************************************************************)
\* the calls that may be in flight
CallIds == 1..MaxPending

ConcurrentInputs == {"complete_gig", "dao_vote", "spam", "bogus"}

\* the call runs up to 'await getFibonroseScore(userId)'
AddPointsCalled(c, userId, action, source) ==
  /\ c \notin DOMAIN pending
  /\ IF PointsOf(action) = 0
     THEN /\ pending' = [k \in DOMAIN pending \cup {c} |->
                           IF k = c THEN [at |-> "done", userId |-> userId,
                                          action |-> action, pointsChange |-> 0,
                                          source |-> source]
                           ELSE pending[k]]
          /\ fibResult' = addPointsResult(userId, action)
     ELSE /\ pending' = [k \in DOMAIN pending \cup {c} |->
                           IF k = c THEN [at |-> "getFibonroseScore",
                                          userId |-> userId, action |-> action,
                                          pointsChange |-> PointsOf(action),
                                          source |-> source]
                           ELSE pending[k]]
          /\ UNCHANGED fibResult
  /\ UNCHANGED <<now, fibLog, magicianVars>>

\* getFibonroseScore resolves: the call reads the score and runs up to
\* 'await checkForNewBadges(userId, action, newScore)'
AddPointsReadScore(c) ==
  /\ c \in DOMAIN pending
  /\ pending[c].at = "getFibonroseScore"
  /\ LET f == pending[c]
         currentScore == getFibonroseScore(f.userId)
         newScore == currentScore.totalScore + f.pointsChange
     IN pending' = [pending EXCEPT ![c] =
                      [at |-> "checkForNewBadges", userId |-> f.userId,
                       action |-> f.action, pointsChange |-> f.pointsChange,
                       source |-> f.source,
                       readScore |-> currentScore.totalScore,
                       newScore |-> newScore,
                       newLevel |-> calculateLevel(newScore),
                       oldLevel |-> currentScore.level]]
  /\ UNCHANGED <<now, fibLog, fibResult, magicianVars>>

\* checkForNewBadges resolves: the call logs the points and returns
AddPointsReturned(c) ==
  /\ c \in DOMAIN pending
  /\ pending[c].at = "checkForNewBadges"
  /\ LET f == pending[c]
         badgesEarned == checkForNewBadges(f.userId, f.action, f.newScore)
     IN /\ fibLog' = Append(fibLog,
               [kind |-> "points", userId |-> f.userId, action |-> f.action,
                pointsChange |-> f.pointsChange, newScore |-> f.newScore,
                newLevel |-> f.newLevel, levelUp |-> f.newLevel > f.oldLevel,
                badgesEarned |-> badgesEarned,
                source |-> f.source, timestamp |-> now * HourMs])
        /\ fibResult' = [op |-> "addPoints", userId |-> f.userId,
                         action |-> f.action, success |-> TRUE,
                         newScore |-> f.newScore, newLevel |-> f.newLevel,
                         badgesEarned |-> badgesEarned]
        /\ pending' = [pending EXCEPT ![c] =
                         [at |-> "done", userId |-> f.userId, action |-> f.action,
                          pointsChange |-> f.pointsChange, source |-> f.source]]
  /\ UNCHANGED <<now, magicianVars>>

ConcurrentNext ==
  \/ \E c \in CallIds, u \in Users, a \in ConcurrentInputs :
       AddPointsCalled(c, u, a, "signgigs")
  \/ \E c \in CallIds : AddPointsReadScore(c)
  \/ \E c \in CallIds : AddPointsReturned(c)

ConcurrentSpec == Init /\ [][ConcurrentNext]_vars

\* every call was made and has returned
AllReturned ==
  /\ DOMAIN pending = CallIds
  /\ \A c \in CallIds : pending[c].at = "done"

RECURSIVE SumDeltas(_, _)
\* the deltas of the calls cs made for principal u
SumDeltas(u, cs) ==
  IF cs = {} THEN 0
  ELSE LET c == CHOOSE x \in cs : TRUE
       IN (IF pending[c].userId = u THEN pending[c].pointsChange ELSE 0)
            + SumDeltas(u, cs \ {c})

\* C14: when the concurrent calls have returned, each principal's totalScore is
\* the initial score plus the deltas of all the calls made for it, whatever the
\* interleaving of their steps
C14_NoLostUpdate ==
  AllReturned =>
    \A u \in Users :
      getFibonroseScore(u).totalScore = InitialScore + SumDeltas(u, CallIds)

\* two calls for one principal are both between their read and their write:
\* each has read the score the other one read
C14_Witness ==
  /\ DOMAIN pending = CallIds
  /\ \A c \in CallIds :
       /\ pending[c].at = "checkForNewBadges"
       /\ pending[c].userId = 1
       /\ pending[c].readScore = InitialScore

(***************************************************************************)
(* Claims about coordination between magicians                            *)
(***************************************************************************)
\* the interval timers run their callbacks
TimersRun == \E timer \in DOMAIN timers : TimerFires(timer)

\* the magician specification with the event loop running every live timer
FairSpec == Init /\ [][MagicianNext]_vars /\ WF_vars(TimersRun)

\* a request of this type for magician m was acknowledged as queued
Queued(m, requestType) ==
  \E i \in DOMAIN coordLog :
    /\ coordLog[i].toMagician = m
    /\ coordLog[i].requestType = requestType
    /\ coordLog[i].priority \in {"low", "medium"}
    /\ coordLog[i].result.success

\* magician m has handled a request of this type
Delivered(m, requestType) ==
  \E j \in DOMAIN actionLog[m] : actionLog[m][j].action = requestType

\* a request of priority high or critical was answered with the target
\* handler's result, not with the acknowledgement of a queued request
SynchronousAnswered ==
  \A i \in DOMAIN coordLog :
    coordLog[i].priority \in {"high", "critical"} =>
      coordLog[i].result.message # "Coordination request queued"

\* C15: a request of priority high or critical is delivered synchronously, a
\* request of priority low or medium is queued and acknowledged, and every
\* queued request is eventually delivered to its target
C15_QueuedIsDelivered ==
  /\ []SynchronousAnswered
  /\ Queued(WA, "send_notification") ~> Delivered(WA, "send_notification")

\* a queued request for the workflow automator is waiting
C15_Witness ==
  /\ Queued(WA, "send_notification")
  /\ ~Delivered(WA, "send_notification")

\* C16: a request whose target is not a registered magician fails with
\* UnknownTargetActor and is never reported successful or queued
C16_UnknownTargetFails ==
  \A i \in DOMAIN coordLog :
    coordLog[i].toMagician \notin Magicians =>
      /\ ~coordLog[i].result.success
      /\ coordLog[i].result.message = "UnknownTargetActor"

\* a request for analytics_oracle, which is not registered, was made
C16_Witness ==
  \E i \in DOMAIN coordLog : coordLog[i].toMagician = "analytics_oracle"

\* magician m has an ActionRecord of the coordination request q
HasRecord(m, q) ==
  \E j \in DOMAIN actionLog[m] :
    /\ actionLog[m][j].action = q.requestType
    /\ actionLog[m][j].type = "coordination"

\* C19: every coordination request has an ActionRecord under the source
\* magician's id and one under the target magician's id
C19_RequestIsAudited ==
  \A i \in DOMAIN coordLog :
    /\ HasRecord(coordLog[i].fromMagician, coordLog[i])
    /\ coordLog[i].toMagician \in Magicians =>
         HasRecord(coordLog[i].toMagician, coordLog[i])

\* a request between two registered magicians was made
C19_Witness ==
  \E i \in DOMAIN coordLog :
    /\ coordLog[i].fromMagician = RT
    /\ coordLog[i].toMagician = WA

\* no request of priority high or critical is ever made: the two handlers
\* that would make one never find anything suspicious
NoSynchronousRequest ==
  \A i \in DOMAIN coordLog : coordLog[i].priority \notin {"high", "critical"}

\* every request made is answered at once with the acknowledgement, and no
\* request is kept anywhere to be delivered later
EveryRequestAcknowledged ==
  \A i \in DOMAIN coordLog :
    coordLog[i].result = [success |-> TRUE, message |-> "Coordination request queued"]

(***************************************************************************)
(* Claims about the audit log                                              *)
(***************************************************************************)
\* sequence a is the beginning of sequence b
IsPrefix(a, b) ==
  /\ Len(a) <= Len(b)
  /\ \A i \in 1..Len(a) : a[i] = b[i]

\* C20: every step leaves each magician's action log as it was or longer at
\* its end: no ActionRecord is modified, reordered or removed
C20_LogAppendOnly ==
  [][\A m \in Magicians : IsPrefix(actionLog[m], actionLog'[m])]_vars

\* one magician's log has grown in two calls to three records or more
C20_Witness ==
  /\ calls = 2
  /\ \E m \in Magicians :
       /\ Len(actionLog[m]) >= 3
       /\ actionLog[m][1].action # actionLog[m][Len(actionLog[m])].action

(***************************************************************************)
(* Claims about the routes                                                 *)
(***************************************************************************)
\* the last request was a POST to /workflow/execute
WorkflowExecutePosted == response.via = "POST /workflow/execute"

\* C21: a POST to /workflow/execute with the recipeId of an existing enabled
\* recipe is handled by the workflow-execute route and runs that recipe; no
\* route registered earlier answers it
C21_WorkflowExecuteRouted ==
  WorkflowExecutePosted =>
    /\ response.route = <<"workflow", "execute">>
    /\ response.status = 200
    /\ response.action = "execute_recipe"
    /\ response.result.recipeId = RecipeId("gig_completion", 0)

\* a POST to /workflow/execute was answered
C21_Witness ==
  /\ WorkflowExecutePosted
  /\ response.token = "jwt1"

(***************************************************************************)
(* Claims about the handlers                                               *)
(***************************************************************************)
\* the last call recorded a contribution
ContributionRecorded ==
  /\ response.via # "none"
  /\ response.status = 200
  /\ response.action = "record_contribution"
  /\ response.result.success

\* C22: record_contribution reports leveledUp = true exactly when the level of
\* the principal the event was applied to is greater after the event than it
\* was before the event
C22_LeveledUpIsLevelRise ==
  ContributionRecorded =>
    (response.result.leveledUp
       <=> response.result.newLevel
             > getFibonroseScore(response.result.userId).level)

\* a contribution that raised the principal from level 3 to level 4
C22_Witness ==
  /\ ContributionRecorded
  /\ response.result.newLevel = 4
  /\ getFibonroseScore(response.result.userId).level = 3

\* the step is a call of create_recipe
IsCreateRecipe == IsCall /\ response'.action = "create_recipe"

\* the level the ledger holds for the principal of the call; 0 without one
LedgerLevel(context) ==
  IF context.userId = NoUser THEN 0 ELSE getFibonroseScore(context.userId).level

\* a rejected create_recipe leaves the stored recipes exactly as they were
RejectedLeavesRecipes ==
  [][(IsCreateRecipe /\ ~response'.result.success) => recipes' = recipes]_vars

\* C23: create_recipe fails for a principal whose level in the ledger, read
\* at call time, is below 4 or who has no score, and a call rejected at the
\* trust gate or the authentication gate leaves the stored recipes as they were
C23_TrustGateReadsLedger ==
  [][IsCreateRecipe =>
       /\ LedgerLevel(response'.context) < 4 => ~response'.result.success
       /\ ~response'.result.success => recipes' = recipes]_vars

\* create_recipe was called for a principal of ledger level 3 with a token
C23_Witness ==
  /\ response.via # "none"
  /\ response.status = 200
  /\ response.action = "create_recipe"
  /\ response.context.deafAuthToken # "none"
  /\ LedgerLevel(response.context) = 3

\* the step is a call of execute_recipe with parameters
IsExecuteRecipe ==
  /\ IsCall
  /\ response'.action = "execute_recipe"
  /\ ~response'.missing

\* the action is marked for retry
HasRetry(action) == action.retryOnFailure /\ action.maxRetries # 0

\* the number of results of the given action type and outcome
ResultCount(results, type, success) ==
  Cardinality({i \in DOMAIN results :
                 results[i].action = type /\ results[i].success = success})

\* the ActionRecords the step appended to the workflow automator's log
Appended ==
  SubSeq(actionLog'[WA], Len(actionLog[WA]) + 1, Len(actionLog'[WA]))

\* the results are those of the first actions of the recipe, in list order,
\* and the run stopped only at the end or at a failure without retry
RanInOrder(actions, results) ==
  LET n == Len(results)
  IN /\ n <= Len(actions)
     /\ \A i \in 1..n : results[i].action = actions[i].type
     /\ \A i \in 1..(n - 1) : results[i].success \/ HasRetry(actions[i])
     /\ n < Len(actions) => (n > 0 /\ ~results[n].success /\ ~HasRetry(actions[n]))

\* what the actions that ran left behind: one notification record for each
\* send_notification, then the record of the run, and one coordination
\* request for each update_fibonrose that succeeded
EffectsOfRun(results) ==
  LET sent == ResultCount(results, "send_notification", TRUE)
  IN /\ Len(Appended) = sent + 1
     /\ \A i \in 1..sent : Appended[i].action = "send_notification"
     /\ Appended[sent + 1].action = "execute_recipe"
     /\ Len(coordLog') = Len(coordLog) + ResultCount(results, "update_fibonrose", TRUE)

\* C24: execute_recipe runs the actions of the recipe in list order; after a
\* failed action without retry no later action runs; the results are exactly
\* the actions run, in order; the call succeeds exactly when every action ran
\* and succeeded; a missing or disabled recipe fails and runs nothing
C24_RecipeRunsInOrder ==
  [][IsExecuteRecipe =>
       LET res == response'.result
       IN IF "results" \in DOMAIN res
          THEN /\ res.recipeId \in DOMAIN recipes
               /\ recipes[res.recipeId].enabled
               /\ RanInOrder(recipes[res.recipeId].actions, res.results)
               /\ EffectsOfRun(res.results)
               /\ res.success <=>
                    /\ Len(res.results) = Len(recipes[res.recipeId].actions)
                    /\ \A i \in DOMAIN res.results : res.results[i].success
          ELSE /\ ~res.success
               /\ res.error \in {"Recipe not found", "Recipe is disabled"}
               /\ actionLog' = actionLog
               /\ coordLog' = coordLog]_vars

\* the gig completion recipe stopped at its first action, which failed
C24_Witness ==
  /\ response.via # "none"
  /\ response.status = 200
  /\ response.action = "execute_recipe"
  /\ "results" \in DOMAIN response.result
  /\ response.result.recipeId = RecipeId("gig_completion", 0)
  /\ Len(response.result.results) = 1
  /\ ~response.result.results[1].success

\* a recipe that is not stored was asked for
C24_WitnessMissing ==
  /\ response.via # "none"
  /\ response.status = 200
  /\ response.action = "execute_recipe"
  /\ response.result.error = "Recipe not found"

\* the '[Workflow] Action failed' lines the step wrote: one for each attempt
\* of an action that failed
FailureLines ==
  SubSeq(actionFailed', Len(actionFailed) + 1, Len(actionFailed'))

\* the number of failed attempts of the action type in the step
FailedAttempts(type) ==
  Cardinality({j \in DOMAIN FailureLines : FailureLines[j] = type})

\* C25: in execute_recipe an action marked retryOnFailure with maxRetries = n > 0
\* that is counted as failed was re-attempted first, at least once and at most
\* n times, so it failed between 2 and n + 1 times in all
C25_FailedActionWasRetried ==
  [][(IsExecuteRecipe /\ "results" \in DOMAIN response'.result) =>
       LET res == response'.result
           actions == recipes[res.recipeId].actions
       IN \A i \in DOMAIN res.results :
            (HasRetry(actions[i]) /\ ~res.results[i].success) =>
              FailedAttempts(actions[i].type) - 1 \in 1..actions[i].maxRetries]_vars

\* a recipe ran whose second action, marked for two retries, is counted failed
C25_Witness ==
  /\ response.via # "none"
  /\ response.status = 200
  /\ response.action = "execute_recipe"
  /\ "results" \in DOMAIN response.result
  /\ response.result.recipeId = RecipeId("custom", 0)
  /\ Len(response.result.results) = 3
  /\ ~response.result.results[2].success
  /\ HasRetry(recipes[response.result.recipeId].actions[2])
  /\ actionFailed # <<>>

\* the step is a call of detect_gaming with parameters
IsDetectGaming ==
  /\ IsCall
  /\ response'.action = "detect_gaming"
  /\ ~response'.missing

\* detect_gaming never reports a principal suspicious: the window it hands to
\* the detector is the recentActivity of getFibonroseScore, which is empty
NeverSuspicious ==
  [][IsDetectGaming =>
       /\ response'.result.success
       /\ ~response'.result.suspicious]_vars

\* a detect_gaming call that finds nothing suspicious writes no freeze line,
\* makes no coordination request and appends no ActionRecord
QuietDetectGaming ==
  [][(IsDetectGaming /\ ~response'.result.suspicious) =>
       /\ fibLog' = fibLog
       /\ coordLog' = coordLog
       /\ actionLog' = actionLog]_vars

\* the step is a call of schedule_task
IsScheduleTask == IsCall /\ response'.action = "schedule_task"

\* the task ids of the schedule_task calls
TaskIds == {p.taskId : p \in TaskParams}

\* the live interval timers that run the task
LiveTimersOf(tm, taskId) == {h \in DOMAIN tm : tm[h].taskId = taskId}

\* C27: each taskId has at most one live interval timer; a schedule_task
\* that succeeds installs a fresh timer for its taskId in place of the old
\* one and leaves the timers of other tasks alone; a schedule_task that is
\* rejected installs no timer and leaves every timer as it was
C27_OneTimerPerTask ==
  [][/\ \A id \in TaskIds : Cardinality(LiveTimersOf(timers', id)) <= 1
     /\ IsScheduleTask =>
          LET res == response'.result
          IN IF res.success
             THEN LET timer == scheduledTasks'[res.taskId]
                  IN /\ timer \notin DOMAIN timers
                     /\ LiveTimersOf(timers', res.taskId) = {timer}
                     /\ \A h \in DOMAIN timers :
                          timers[h].taskId # res.taskId =>
                            (h \in DOMAIN timers' /\ timers'[h] = timers[h])
             ELSE /\ timers' = timers
                  /\ scheduledTasks' = scheduledTasks
                  /\ nextTimer' = nextTimer]_vars

\* a task was scheduled a second time: two timers were set, one is live
C27_Witness ==
  /\ response.via # "none"
  /\ response.status = 200
  /\ response.action = "schedule_task"
  /\ response.result.success
  /\ nextTimer = 3
  /\ Cardinality(DOMAIN timers) = 1

\* a schedule_task call was rejected while a timer was running
C27_WitnessRejected ==
  /\ response.via # "none"
  /\ response.status = 200
  /\ response.action = "schedule_task"
  /\ ~response.result.success
  /\ DOMAIN timers # {}

\* the step is a create_recipe call that succeeded
RecipeCreated == IsCreateRecipe /\ response'.result.success

\* C28: a successful create_recipe adds a new recipe and replaces none: there
\* is exactly one more stored recipe, the returned recipeId was not stored
\* before, and every recipe stored before is still stored unchanged, also
\* when an earlier create_recipe completed at the same clock reading
C28_CreateAddsNewRecipe ==
  [][RecipeCreated =>
       /\ Cardinality(DOMAIN recipes') = Cardinality(DOMAIN recipes) + 1
       /\ response'.result.recipeId \notin DOMAIN recipes
       /\ \A id \in DOMAIN recipes :
            id \in DOMAIN recipes' /\ recipes'[id] = recipes[id]]_vars

\* two create_recipe calls succeeded at the same clock reading
C28_Witness ==
  /\ response.via # "none"
  /\ response.status = 200
  /\ response.action = "create_recipe"
  /\ response.result.success
  /\ Cardinality({i \in DOMAIN actionLog[WA] :
                    /\ actionLog[WA][i].action = "create_recipe"
                    /\ actionLog[WA][i].success
                    /\ actionLog[WA][i].timestamp = now * HourMs}) = 2

(***************************************************************************)
(* Reading the action log                                                  *)
(***************************************************************************)
\* calls that append ActionRecords to the workflow automator's log, and
\* getRecentActions with every limit from 0
RecentNext ==
  \/ \E c \in PlainContexts : Execute(WA, "send_notification", c, [missing |-> FALSE])
  \/ \E c \in PlainContexts, p \in RunParams : Execute(WA, "execute_recipe", c, p)
  \/ \E m \in {WA, GK}, limit \in 0..MaxLimit : GetRecentActions(m, limit)

RecentSpec == Init /\ [][RecentNext]_vars

\* getRecentActions was the last call
RecentActionsRead == response.via = "getRecentActions"

\* the last min(limit, n) records of the log
LastRecords(log, limit) ==
  LET n == Len(log)
      k == IF limit < n THEN limit ELSE n
  IN SubSeq(log, n - k + 1, n)

\* C29: getRecentActions(limit) returns, for every limit >= 0 and every log
\* length n, the last min(limit, n) records of the log in append order, and
\* so never more than limit records
C29_LastLimitRecords ==
  RecentActionsRead =>
    /\ response.result = LastRecords(actionLog[response.magicianId], response.limit)
    /\ Len(response.result) <= response.limit

\* for every limit of at least 1 the result is the last min(limit, n) records
C29_PositiveLimits ==
  (RecentActionsRead /\ response.limit >= 1) =>
    response.result = LastRecords(actionLog[response.magicianId], response.limit)

\* getRecentActions(0) was called on a log that holds records
C29_Witness ==
  /\ RecentActionsRead
  /\ response.limit = 0
  /\ Len(actionLog[response.magicianId]) >= 2

\* getRecentActions cut a log longer than the limit
C29_WitnessCut ==
  /\ RecentActionsRead
  /\ response.limit = 2
  /\ Len(actionLog[response.magicianId]) = 3

(***************************************************************************)
(* The progress view_score reports                                         *)
(***************************************************************************)
\* total scores on both sides of every level threshold and in between
ProgressScores ==
  {total \in 0..MaxScore : total % 25 = 0 \/ (total + 1) % 50 = 0}

\* the progress of a score record with the given total and its level
ScoreProgress(total) ==
  /\ response' = [via |-> "scoreProgress", status |-> 0,
                  result |-> [total |-> total, level |-> calculateLevel(total)]
                             @@ scoreProgress([totalScore |-> total,
                                               level |-> calculateLevel(total)])]
  /\ UNCHANGED <<now, fibLog, fibResult, actionLog, recipes, scheduledTasks,
                 timers, nextTimer, coordLog, synced, actionFailed, calls,
                 pending>>

ProgressNext == \E total \in ProgressScores : ScoreProgress(total)

ProgressSpec == Init /\ [][ProgressNext]_vars

\* a progress block was computed, by view_score or from a drawn score
ProgressReported ==
  \/ response.via = "scoreProgress"
  \/ /\ response.via # "none"
     /\ response.status = 200
     /\ response.action = "view_score"
     /\ response.result.success

\* the next milestone and progress block are those of a score below the next
\* threshold
ProgressIsSound(result) ==
  /\ result.pointsNeeded >= 0
  /\ result.pointsNeeded = getLevelThreshold(result.level + 1) - result.total
  /\ result.needed
       = getLevelThreshold(result.level + 1) - getLevelThreshold(result.level)
  /\ result.needed > 0
  /\ result.current >= 0
  /\ result.current <= result.needed

C30_BelowTopLevel ==
  (ProgressReported /\ response.result.level < Len(levels)) =>
    ProgressIsSound(response.result)

====
